---- MODULE Spec2Model ----
(***************************************************************************)
(* Congressional financial-disclosure pipeline: the three scripts          *)
(*   scraperDownloaderCombined.py  (download_zip_file, convert, download)  *)
(*   CongressionalFDScraper.py     (convert_zip_xml_to_json)               *)
(*   CongressionalFDDownloader.py  (download_pdfs with the year fixed)     *)
(* as one state machine.  Text is a sequence of one-character strings, an  *)
(* optional value is a sequence of length 0 or 1, a dictionary value is    *)
(* tagged: Str(text) or Rec(dictionary).                                   *)
(***************************************************************************)
EXTENDS Integers, Sequences, FiniteSets, TLC

VARIABLES script, stage, pc, visited, now, main_year, zipFile, jsonFile,
          failedFile, error, xmlCount, disclosures, idx, pdf_year,
          successful_downloads, failed_downloads, attempts, summary,
          wroteFailed, root, runs

vars == <<script, stage, pc, visited, now, main_year, zipFile, jsonFile,
          failedFile, error, xmlCount, disclosures, idx, pdf_year,
          successful_downloads, failed_downloads, attempts, summary,
          wroteFailed, root, runs>>

(* ------------------------------ bounds -------------------------------- *)

\* Largest number of entries in an archive's name list.
MaxEntries == 2
\* Largest number of child elements of the XML root.
MaxNodes == 2
\* How many times the calendar year may roll over while the model runs.
MaxTicks == 1
\* How many times a script is started again after it has ended.
MaxRuns == 1

(* ------------------------- program constants -------------------------- *)

\* The year written into the standalone downloader's base_url.
HardcodedYear == 2024
\* datetime.min is 0001-01-01: its year, month and day.
MinYear == 1
\* %Y is exactly four digits.
YearDigits == 4

(* ------------------------------- text --------------------------------- *)

Digits == <<"0", "1", "2", "3", "4", "5", "6", "7", "8", "9">>

IsDigit(c) == \E i \in 1..10 : Digits[i] = c

DigitVal(c) == (CHOOSE i \in 1..10 : Digits[i] = c) - 1

UpperCase == <<"X", "M", "L", "F", "T">>
LowerCase == <<"x", "m", "l", "f", "t">>

\* str.lower() on one character.
LowerChar(c) ==
  IF \E i \in 1..Len(UpperCase) : UpperCase[i] = c
  THEN LowerCase[CHOOSE i \in 1..Len(UpperCase) : UpperCase[i] = c]
  ELSE c

\* str.lower()
Lower(s) == [i \in 1..Len(s) |-> LowerChar(s[i])]

\* str.endswith(suffix)
EndsWith(s, suffix) ==
  /\ Len(s) >= Len(suffix)
  /\ SubSeq(s, Len(s) - Len(suffix) + 1, Len(s)) = suffix

DotXml == <<".", "x", "m", "l">>

\* f.lower().endswith('.xml')
IsXmlName(f) == EndsWith(Lower(f), DotXml)

\* [f for f in namelist if f.lower().endswith('.xml')]
RECURSIVE XmlFiles(_)
XmlFiles(names) ==
  IF names = <<>> THEN <<>>
  ELSE IF IsXmlName(Head(names))
       THEN <<Head(names)>> \o XmlFiles(Tail(names))
       ELSE XmlFiles(Tail(names))

(* ------------------------------- dates -------------------------------- *)

\* The pieces of a text between "/" separators.
RECURSIVE SplitSlash(_, _, _)
SplitSlash(s, cur, acc) ==
  IF s = <<>> THEN Append(acc, cur)
  ELSE IF Head(s) = "/" THEN SplitSlash(Tail(s), <<>>, Append(acc, cur))
       ELSE SplitSlash(Tail(s), Append(cur, Head(s)), acc)

AllDigits(f) == \A i \in 1..Len(f) : IsDigit(f[i])

RECURSIVE NumVal(_)
NumVal(f) ==
  IF f = <<>> THEN 0
  ELSE 10 * NumVal(SubSeq(f, 1, Len(f) - 1)) + DigitVal(f[Len(f)])

IsLeap(y) == (y % 4 = 0 /\ y % 100 # 0) \/ y % 400 = 0

DaysIn(m, y) ==
  IF m = 2 THEN (IF IsLeap(y) THEN 29 ELSE 28)
  ELSE IF m \in {4, 6, 9, 11} THEN 30 ELSE 31

\* Whether datetime.strptime(text, '%m/%d/%Y') returns (it raises ValueError
\* otherwise): one or two digits 1..12, one or two digits 1..31 within the
\* month, exactly four digits, year at least 1, nothing left over.
Parses(text) ==
  LET f == SplitSlash(text, <<>>, <<>>) IN
  /\ Len(f) = 3
  /\ Len(f[1]) \in {1, 2} /\ AllDigits(f[1]) /\ NumVal(f[1]) \in 1..12
  /\ Len(f[2]) \in {1, 2} /\ AllDigits(f[2]) /\ NumVal(f[2]) >= 1
  /\ Len(f[3]) = YearDigits /\ AllDigits(f[3]) /\ NumVal(f[3]) >= MinYear
  /\ NumVal(f[2]) <= DaysIn(NumVal(f[1]), NumVal(f[3]))

\* A datetime at midnight as one number; the order of these numbers is the
\* order of the datetimes.
DateNum(y, m, d) == y * 10000 + m * 100 + d

\* datetime.strptime(text, '%m/%d/%Y') where it returns.
Strptime(text) ==
  LET f == SplitSlash(text, <<>>, <<>>) IN
  DateNum(NumVal(f[3]), NumVal(f[1]), NumVal(f[2]))

\* datetime.min
DatetimeMin == DateNum(MinYear, 1, 1)

(* --------------------------- XML and records -------------------------- *)

Leaf(tag, text) == [tag |-> tag, text |-> text, kids |-> <<>>]
Elem(tag, kids) == [tag |-> tag, text |-> <<>>, kids |-> kids]

Str(s) == [kind |-> "str", s |-> s]
Rec(d) == [kind |-> "rec", d |-> d]

\* child.text or ""
TextOrEmpty(child) == IF child.text = <<>> THEN <<>> ELSE child.text[1]

\* xml_member_to_dict: a later child replaces an earlier one of the same tag.
RECURSIVE xml_member_to_dict(_)
xml_member_to_dict(member) ==
  LET kids == member.kids
      tags == {kids[i].tag : i \in DOMAIN kids}
      last(t) == CHOOSE i \in DOMAIN kids :
                   /\ kids[i].tag = t
                   /\ \A j \in DOMAIN kids : kids[j].tag = t => j <= i
  IN [t \in tags |->
        IF Len(kids[last(t)].kids) = 0
        THEN Str(TextOrEmpty(kids[last(t)]))
        ELSE Rec(xml_member_to_dict(kids[last(t)]))]

\* root.findall('.//Member'): every descendant named Member, document order.
RECURSIVE Descendants(_)
Descendants(kids) ==
  IF kids = <<>> THEN <<>>
  ELSE (IF Head(kids).tag = "Member" THEN <<Head(kids)>> ELSE <<>>)
       \o Descendants(Head(kids).kids) \o Descendants(Tail(kids))

findall_Member(tree) == Descendants(tree.kids)

\* members: one dictionary per Member node, in document order.
MembersOf(tree) ==
  LET nodes == findall_Member(tree) IN
  [i \in 1..Len(nodes) |-> xml_member_to_dict(nodes[i])]

HasKey(d, k) == k \in DOMAIN d

\* strptime(member['FilingDate'], ...) raises TypeError, which the except
\* clause does not name, when the value is a nested dictionary.
DateTypeError(member) ==
  HasKey(member, "FilingDate") /\ member["FilingDate"].kind = "rec"

\* Whether the FilingDate of a record parses as month/day/year.
DateParses(member) ==
  /\ HasKey(member, "FilingDate")
  /\ member["FilingDate"].kind = "str"
  /\ Parses(member["FilingDate"].s)

\* parse_filing_date: KeyError and ValueError give datetime.min.
parse_filing_date(member) ==
  IF DateParses(member) THEN Strptime(member["FilingDate"].s) ELSE DatetimeMin

\* A sort step that keeps one record per date.
InsertDesc_OnePerKey(sorted, x) ==
  LET smaller == {i \in 1..Len(sorted) :
                    parse_filing_date(sorted[i]) < parse_filing_date(x)}
      p == IF smaller = {} THEN Len(sorted) + 1
           ELSE CHOOSE i \in smaller : \A j \in smaller : i <= j
  IN IF \E i \in 1..Len(sorted) :
          parse_filing_date(sorted[i]) = parse_filing_date(x)
     THEN sorted
     ELSE SubSeq(sorted, 1, p - 1) \o <<x>> \o SubSeq(sorted, p, Len(sorted))

\* One step of a stable descending sort: x goes before the first element
\* whose key is smaller, after every element whose key is equal or larger.
InsertDesc(sorted, x) ==
  LET smaller == {i \in 1..Len(sorted) :
                    parse_filing_date(sorted[i]) < parse_filing_date(x)}
      p == IF smaller = {} THEN Len(sorted) + 1
           ELSE CHOOSE i \in smaller : \A j \in smaller : i <= j
  IN SubSeq(sorted, 1, p - 1) \o <<x>> \o SubSeq(sorted, p, Len(sorted))

\* sorted(members, key=parse_filing_date, reverse=True)
RECURSIVE SortedMembers(_)
SortedMembers(ms) ==
  IF ms = <<>> THEN <<>>
  ELSE InsertDesc(SortedMembers(SubSeq(ms, 1, Len(ms) - 1)), ms[Len(ms)])

(* ------------------------------- inputs ------------------------------- *)

\* Entry names an archive may hold: "f.xml", "F.XML", "f.txt", "xml".
EntryNames ==
  { <<"f", ".", "x", "m", "l">>, <<"F", ".", "X", "M", "L">>,
    <<"f", ".", "t", "x", "t">>, <<"x", "m", "l">> }

SeqsUpTo(S, n) == UNION {[1..k -> S] : k \in 0..n}

NameLists == SeqsUpTo(EntryNames, MaxEntries)

DocLeaf(id) == Leaf("DocID", <<id>>)
DateLeaf(text) == Leaf("FilingDate", <<text>>)

Date_3_1_2024 == <<"3", "/", "1", "/", "2", "0", "2", "4">>
Date_1_15_2024 == <<"1", "/", "1", "5", "/", "2", "0", "2", "4">>
Date_1_1_0001 == <<"1", "/", "1", "/", "0", "0", "0", "1">>
Date_13_1_2024 == <<"1", "3", "/", "1", "/", "2", "0", "2", "4">>

\* Member nodes: identifiers A, B, empty and absent; dates that parse, the
\* earliest date, a date that does not parse, no date, a nested date.
MemberA == Elem("Member", <<DocLeaf(<<"A">>), DateLeaf(Date_3_1_2024)>>)
MemberB == Elem("Member", <<DocLeaf(<<"B">>)>>)
MemberAMin == Elem("Member", <<DocLeaf(<<"A">>), DateLeaf(Date_1_1_0001)>>)
MemberEmpty ==
  Elem("Member", <<Leaf("DocID", <<>>), DateLeaf(Date_13_1_2024)>>)
MemberNoDoc ==
  Elem("Member", <<Elem("Filer", <<Leaf("Last", <<<<"X">>>>)>>),
                   DateLeaf(Date_1_15_2024)>>)
MemberNestedDate ==
  Elem("Member", <<DocLeaf(<<"B">>),
                   Elem("FilingDate", <<Leaf("Year", <<<<"2">>>>)>>)>>)

\* Children of the root: Member nodes, a node of another name, and a node
\* of another name that holds a Member.
RootKids ==
  { MemberA, MemberB, MemberAMin, MemberEmpty, MemberNoDoc, MemberNestedDate,
    Leaf("Header", <<>>), Elem("Group", <<MemberB>>) }

Roots == {Elem("FinancialDisclosure", k) : k \in SeqsUpTo(RootKids, MaxNodes)}

\* What a document fetch may do: return 2xx, or raise a RequestException
\* (transport error, timeout, non-2xx status from raise_for_status).
FetchFailures == {"ConnectionError", "Timeout", "HTTPError"}
FetchOutcomes == {"ok"} \cup FetchFailures

Scripts == {"Combined", "Scraper", "Downloader"}

Years == HardcodedYear..(HardcodedYear + MaxTicks)

\* Record lists the scraper can have written to financial_disclosure.json.
ScrapedLists ==
  { SortedMembers(MembersOf(r)) :
      r \in {q \in Roots : \A i \in DOMAIN MembersOf(q) :
                             ~DateTypeError(MembersOf(q)[i])} }

(* --------------------------- download_pdfs ---------------------------- *)

\* not doc_id
Falsy(v) ==
  \/ v.kind = "str" /\ v.s = <<>>
  \/ v.kind = "rec" /\ DOMAIN v.d = {}

\* disclosure.get('DocID', '')
GetDocID(disclosure) ==
  IF HasKey(disclosure, "DocID") THEN disclosure["DocID"] ELSE Str(<<>>)

\* A loop that has lost the "if not doc_id: continue" test.
Skips_Never(s, disclosure) == FALSE

\* The combined script skips a record whose DocID is absent or empty; the
\* standalone downloader has no such test.
Skips(s, disclosure) == s = "Combined" /\ Falsy(GetDocID(disclosure))

\* disclosure['DocID'] raises KeyError in the standalone downloader.
RaisesKeyError(s, disclosure) ==
  s = "Downloader" /\ ~HasKey(disclosure, "DocID")

\* The first index from i on that the loop does not skip; Len + 1 if none.
RECURSIVE NextIndex(_, _, _)
NextIndex(s, ds, i) ==
  IF i > Len(ds) THEN i
  ELSE IF Skips(s, ds[i]) THEN NextIndex(s, ds, i + 1) ELSE i

\* disclosure.copy() with download_error = str(e)
FailedInfo(disclosure, cause) ==
  [k \in DOMAIN disclosure \cup {"download_error"} |->
     IF k = "download_error" THEN Str(cause) ELSE disclosure[k]]

\* current_year of download_pdfs: the clock in the combined script, the
\* year written into base_url in the standalone one.
PdfYear(s, clock) == IF s = "Combined" THEN clock ELSE HardcodedYear

\* The last line of the combined download_pdfs reads failed_download_path,
\* which is bound only inside "if failed_downloads".
SummaryRaises(s, failed) == s = "Combined" /\ failed = <<>>

\* The loop from index i with the two lists as they stand, up to the next
\* blocking request or to the end of download_pdfs.
Continue(i, succ, fail) ==
  LET j == NextIndex(script, disclosures', i) IN
  /\ successful_downloads' = succ
  /\ failed_downloads' = fail
  /\ idx' = j
  /\ IF j <= Len(disclosures') /\ RaisesKeyError(script, disclosures'[j])
     THEN /\ stage' = "Crashed"
          /\ error' = "KeyError"
          /\ pc' = "raised"
          /\ visited' = Append(visited, "Crashed")
          /\ UNCHANGED <<attempts, failedFile, summary, wroteFailed>>
     ELSE IF j <= Len(disclosures')
     THEN /\ attempts' = Append(attempts,
                 [index |-> j, year |-> pdf_year',
                  doc_id |-> GetDocID(disclosures'[j])])
          /\ pc' = "fetching"
          /\ UNCHANGED <<stage, visited, error, failedFile, summary,
                         wroteFailed>>
     ELSE /\ failedFile' = IF fail # <<>> THEN <<fail>> ELSE failedFile
          /\ wroteFailed' = (fail # <<>>)
          /\ summary' = <<[total |-> Len(disclosures'),
                           successful |-> Len(succ), failed |-> Len(fail)]>>
          /\ stage' = IF SummaryRaises(script, fail) THEN "Crashed" ELSE "Done"
          /\ error' = IF SummaryRaises(script, fail)
                      THEN "UnboundLocalError" ELSE error
          /\ visited' = Append(visited, stage')
          /\ pc' = IF SummaryRaises(script, fail) THEN "raised" ELSE "returned"
          /\ UNCHANGED attempts

\* download_pdfs up to its first request.
download_pdfs_begin ==
  /\ stage = "Retrieving" /\ pc = "begin"
  /\ disclosures' = jsonFile[1].records
  /\ pdf_year' = PdfYear(script, now)
  /\ root' = <<>>
  /\ Continue(1, <<>>, <<>>)
  /\ UNCHANGED <<script, now, main_year, zipFile, jsonFile, xmlCount, runs>>

\* A document request ends: the response is written and the record joins
\* successful_downloads, or the RequestException is caught and a copy of the
\* record joins failed_downloads; the loop goes on.
fetch_returns ==
  /\ stage = "Retrieving" /\ pc = "fetching"
  /\ \E outcome \in FetchOutcomes :
       /\ UNCHANGED <<disclosures, pdf_year>>
       /\ IF outcome = "ok"
          THEN Continue(idx + 1,
                        Append(successful_downloads, disclosures[idx]),
                        failed_downloads)
          ELSE Continue(idx + 1, successful_downloads,
                        Append(failed_downloads,
                               FailedInfo(disclosures[idx], outcome)))
  /\ UNCHANGED <<script, now, main_year, zipFile, jsonFile, xmlCount,
                 root, runs>>

(* ------------------------- the other handlers ------------------------- *)

\* The locals of download_pdfs before it is called.
NoDownload ==
  /\ disclosures = <<>> /\ idx = 0 /\ pdf_year = 0
  /\ successful_downloads = <<>> /\ failed_downloads = <<>>
  /\ attempts = <<>> /\ summary = <<>> /\ wroteFailed = FALSE

Init ==
  /\ script \in Scripts
  /\ stage = "Idle" /\ pc = "main" /\ visited = <<"Idle">>
  /\ now \in Years /\ main_year = 0
  /\ zipFile = IF script = "Scraper"
               THEN <<[year |-> HardcodedYear]>> ELSE <<>>
  /\ jsonFile \in IF script = "Downloader"
                  THEN {<<[year |-> y, records |-> r]>> :
                          y \in {z \in Years : z <= now}, r \in ScrapedLists}
                  ELSE {<<>>}
  /\ failedFile = <<>>
  /\ error = "" /\ xmlCount = -1 /\ root = <<>> /\ runs = 0
  /\ NoDownload

Enter(s) == stage' = s /\ visited' = Append(visited, s)

\* main of the combined script up to the archive request: current_year.
main_combined ==
  /\ script = "Combined" /\ stage = "Idle"
  /\ main_year' = now
  /\ Enter("Acquiring")
  /\ UNCHANGED <<script, pc, now, zipFile, jsonFile, failedFile, error,
                 xmlCount, disclosures, idx, pdf_year, successful_downloads,
                 failed_downloads, attempts, summary, wroteFailed, root,
                 runs>>

\* A main that has lost the "if downloaded_zip" test.
AfterZipFailure_GoesOn == "Normalizing"

\* "if downloaded_zip" in main: what follows a failed download_zip_file.
AfterZipFailure == "Aborted"

\* download_zip_file when the request ends, and main's test of its result:
\* the body is written and the path returned, or the RequestException is
\* caught and None returned.
download_zip_file ==
  /\ script = "Combined" /\ stage = "Acquiring"
  /\ \E ok \in BOOLEAN :
       IF ok
       THEN /\ zipFile' = <<[year |-> main_year]>>
            /\ Enter("Normalizing")
            /\ UNCHANGED error
       ELSE /\ error' = "RequestException"
            /\ Enter(AfterZipFailure)
            /\ UNCHANGED zipFile
  /\ UNCHANGED <<script, pc, now, main_year, jsonFile, failedFile,
                 xmlCount, disclosures, idx, pdf_year, successful_downloads,
                 failed_downloads, attempts, summary, wroteFailed, root,
                 runs>>

\* The script of CongressionalFDScraper.py: the archive is already on disk.
main_scraper ==
  /\ script = "Scraper" /\ stage = "Idle"
  /\ Enter("Normalizing")
  /\ UNCHANGED <<script, pc, now, main_year, zipFile, jsonFile, failedFile,
                 error, xmlCount, disclosures, idx, pdf_year,
                 successful_downloads, failed_downloads, attempts, summary,
                 wroteFailed, root, runs>>

\* main of CongressionalFDDownloader.py: the JSON file is already on disk.
main_downloader ==
  /\ script = "Downloader" /\ stage = "Idle"
  /\ Enter("Retrieving")
  /\ pc' = "begin"
  /\ UNCHANGED <<script, now, main_year, zipFile, jsonFile, failedFile,
                 error, xmlCount, disclosures, idx, pdf_year,
                 successful_downloads, failed_downloads, attempts, summary,
                 wroteFailed, root, runs>>

\* A test that refuses only an archive without any .xml entry.
WrongCount_OnlyNone(n) == n = 0

\* "if len(xml_files) != 1: raise ValueError"
WrongCount(n) == n # 1

\* What follows convert_zip_xml_to_json in the script that called it.
AfterConvert(s) == IF s = "Combined" THEN "Retrieving" ELSE "Printing"

ConvertRaises(cause) ==
  /\ error' = cause
  /\ Enter("Aborted")
  /\ UNCHANGED <<jsonFile, root, pc>>

\* convert_zip_xml_to_json on the archive on disk, whose name list, whose
\* well-formedness and whose tree are read here.
convert_zip_xml_to_json ==
  /\ stage = "Normalizing"
  /\ \E names \in NameLists :
       /\ xmlCount' = Len(XmlFiles(names))
       /\ IF WrongCount(xmlCount')
          THEN ConvertRaises("ValueError")
          ELSE \E wellFormed \in BOOLEAN :
                 IF ~wellFormed
                 THEN ConvertRaises("ParseError")
                 ELSE \E tree \in Roots :
                   LET ms == MembersOf(tree) IN
                   IF \E i \in DOMAIN ms : DateTypeError(ms[i])
                   THEN ConvertRaises("TypeError")
                   ELSE /\ root' = <<tree>>
                        /\ jsonFile' = <<[year |-> zipFile[1].year,
                                          records |-> SortedMembers(ms)]>>
                        /\ Enter(AfterConvert(script))
                        /\ pc' = IF script = "Combined" THEN "begin" ELSE pc
                        /\ UNCHANGED error
  /\ UNCHANGED <<script, now, main_year, zipFile, failedFile, disclosures,
                 idx, pdf_year, successful_downloads, failed_downloads,
                 attempts, summary, wroteFailed, runs>>

\* How many filing dates the scraper script prints.
PrintedMembers == 5

\* The end of the scraper script: member['FilingDate'] of the first five.
scraper_print ==
  /\ script = "Scraper" /\ stage = "Printing"
  /\ LET out == jsonFile[1].records
         shown == {i \in DOMAIN out : i <= PrintedMembers}
     IN IF \E i \in shown : ~HasKey(out[i], "FilingDate")
        THEN error' = "KeyError" /\ Enter("Crashed")
        ELSE Enter("Done") /\ UNCHANGED error
  /\ root' = <<>>
  /\ UNCHANGED <<script, pc, now, main_year, zipFile, jsonFile, failedFile,
                 xmlCount, disclosures, idx, pdf_year, successful_downloads,
                 failed_downloads, attempts, summary, wroteFailed, runs>>

Ended == stage \in {"Done", "Aborted", "Crashed"}

\* The calendar year rolls over while a script runs.
Tick ==
  /\ ~Ended
  /\ now < HardcodedYear + MaxTicks
  /\ now' = now + 1
  /\ UNCHANGED <<script, stage, pc, visited, main_year, zipFile, jsonFile,
                 failedFile, error, xmlCount, disclosures, idx, pdf_year,
                 successful_downloads, failed_downloads, attempts, summary,
                 wroteFailed, root, runs>>

\* The same script is started again: files stay, everything else is new.
Restart ==
  /\ Ended
  /\ runs < MaxRuns
  /\ runs' = runs + 1
  /\ stage' = "Idle" /\ pc' = "main" /\ visited' = <<"Idle">>
  /\ main_year' = 0 /\ error' = "" /\ xmlCount' = -1 /\ root' = <<>>
  /\ disclosures' = <<>> /\ idx' = 0 /\ pdf_year' = 0
  /\ successful_downloads' = <<>> /\ failed_downloads' = <<>>
  /\ attempts' = <<>> /\ summary' = <<>> /\ wroteFailed' = FALSE
  /\ UNCHANGED <<script, now, zipFile, jsonFile, failedFile>>

Next ==
  \/ main_combined
  \/ download_zip_file
  \/ main_scraper
  \/ main_downloader
  \/ convert_zip_xml_to_json
  \/ scraper_print
  \/ download_pdfs_begin
  \/ fetch_returns
  \/ Tick

\* One run of one script.
Spec == Init /\ [][Next]_vars

\* Runs of a script one after another.
SpecRuns == Init /\ [][Next \/ Restart]_vars

(* ------------------------------ properties ---------------------------- *)

Range(q) == {q[i] : i \in DOMAIN q}

Count(q, x) == Cardinality({i \in DOMAIN q : q[i] = x})

\* A record whose DocID is present and not empty.
NonEmptyDocID(d) == HasKey(d, "DocID") /\ ~Falsy(d["DocID"])

\* download_pdfs has ended, by returning or by an exception leaving it.
DownloadEnded == pc \in {"returned", "raised"}

\* convert_zip_xml_to_json has just returned to the script that called it.
ConvertReturned ==
  \/ script = "Combined" /\ stage = "Retrieving" /\ pc = "begin"
  \/ script = "Scraper" /\ stage = "Printing"

AttemptsOf(i) == {k \in DOMAIN attempts : attempts[k].index = i}

AttemptsInOrder ==
  \A k \in DOMAIN attempts : \A l \in DOMAIN attempts :
    k < l => attempts[k].index < attempts[l].index

\* C1: once download_pdfs has ended, every record with a non-empty DocID had
\* its fetch attempted exactly once, in the order of the records, and no
\* fetch failure has left download_pdfs.
C1_FailureIsolation ==
  DownloadEnded =>
    /\ \A i \in DOMAIN disclosures :
         NonEmptyDocID(disclosures[i]) => Cardinality(AttemptsOf(i)) = 1
    /\ AttemptsInOrder
    /\ error \notin FetchFailures

\* C1 for the combined script alone.
C1_CombinedIsolation == script = "Combined" => C1_FailureIsolation

DocIDsOf(q) == {GetDocID(q[i]) : i \in DOMAIN q}

NonEmptyCount(q) == Cardinality({i \in DOMAIN q : NonEmptyDocID(q[i])})

PartitionCount ==
  Len(successful_downloads) + Len(failed_downloads)
    = NonEmptyCount(disclosures)

\* C2 as stated: when the loop of the combined download_pdfs has finished,
\* the two lists together are as long as the number of records with a
\* non-empty DocID, and no DocID is in both lists.
C2_Original ==
  (script = "Combined" /\ DownloadEnded) =>
    /\ PartitionCount
    /\ DocIDsOf(successful_downloads) \cap DocIDsOf(failed_downloads) = {}

CarriedOnce(id) ==
  Cardinality({i \in DOMAIN disclosures : GetDocID(disclosures[i]) = id}) = 1

\* C2 as amended: when the loop of the combined download_pdfs has finished,
\* the two lists together are as long as the number of records with a
\* non-empty DocID, and a DocID that exactly one record carries is not in
\* both lists.
C2_Partition ==
  (script = "Combined" /\ DownloadEnded) =>
    /\ PartitionCount
    /\ \A id \in DocIDsOf(successful_downloads)
                   \cap DocIDsOf(failed_downloads) : ~CarriedOnce(id)

\* C2 witness: two records with different identifiers, one retrieved and
\* one failed.
C2_Witness ==
  /\ script = "Combined" /\ DownloadEnded
  /\ Len(successful_downloads) = 1 /\ Len(failed_downloads) = 1
  /\ DocIDsOf(successful_downloads) \cap DocIDsOf(failed_downloads) = {}

\* C3: in a RecordSet convert_zip_xml_to_json has produced, dates that parse
\* do not increase, and every record whose date is missing or does not parse
\* comes after every record whose date parses.
C3_Ordering ==
  ConvertReturned =>
    LET out == jsonFile[1].records IN
    \A i \in DOMAIN out : \A j \in DOMAIN out :
      /\ (i < j /\ DateParses(out[i]) /\ DateParses(out[j]))
           => parse_filing_date(out[i]) >= parse_filing_date(out[j])
      /\ (~DateParses(out[i]) /\ DateParses(out[j])) => j < i

\* C4: a run of the combined script that reached Retrieving ends Done, with
\* the summary printed, having passed Idle, Acquiring, Normalizing and
\* Retrieving in that order.
C4_Progress ==
  (script = "Combined" /\ DownloadEnded) =>
    /\ stage = "Done"
    /\ summary # <<>>
    /\ visited = <<"Idle", "Acquiring", "Normalizing", "Retrieving", "Done">>

\* C5: a failed download_zip_file is caught (the run is aborted, no exception
\* leaves it), and the run enters neither Normalizing nor Retrieving, reads
\* no archive, fetches no document and enters no stage twice.
C5_ShortCircuit ==
  script = "Combined" =>
    /\ error = "RequestException" =>
         /\ stage = "Aborted"
         /\ visited = <<"Idle", "Acquiring", "Aborted">>
         /\ xmlCount = -1 /\ jsonFile = <<>> /\ zipFile = <<>>
         /\ attempts = <<>> /\ disclosures = <<>> /\ summary = <<>>
    /\ \A i \in DOMAIN visited : \A j \in DOMAIN visited :
         i # j => visited[i] # visited[j]

\* C5 witness: the archive request has failed and the run is over.
C5_Witness ==
  script = "Combined" /\ error = "RequestException" /\ stage = "Aborted"

\* C6: the step of convert_zip_xml_to_json raises the ValueError exactly when
\* the number of .xml entries is not one, and then the run is aborted with
\* that number, no tree is kept and the JSON file is left as it was.
C6_MalformedArchive ==
  [][(stage = "Normalizing" /\ stage' # "Normalizing") =>
       /\ (xmlCount' # 1) <=> (error' = "ValueError")
       /\ (xmlCount' # 1) =>
            (stage' = "Aborted" /\ jsonFile' = jsonFile /\ root' = <<>>)]_vars

\* C6 witness: an archive with two .xml entries has been refused.
C6_Witness == error = "ValueError" /\ xmlCount = 2 /\ stage = "Aborted"

\* The Member nodes of a tree, counted node by node.
RECURSIVE CountMembers(_)
CountMembers(node) ==
  LET below[k \in 0..Len(node.kids)] ==
        IF k = 0 THEN 0
        ELSE below[k - 1] + CountMembers(node.kids[k])
                          + (IF node.kids[k].tag = "Member" THEN 1 ELSE 0)
  IN below[Len(node.kids)]

C8_DocIDSkip ==
  stage \in {"Retrieving", "Done", "Crashed"} =>
    /\ \A k \in DOMAIN attempts :
         NonEmptyDocID(disclosures[attempts[k].index])
    /\ \A r \in Range(successful_downloads) : NonEmptyDocID(r)
    /\ \A r \in Range(failed_downloads) : NonEmptyDocID(r)
    /\ error # "KeyError"

\* C8 for the combined script alone.
C8_CombinedSkip == script = "Combined" => C8_DocIDSkip

\* The failed records are copies of records of this run with a cause added.
FailedAreCopies ==
  \A k \in DOMAIN failed_downloads :
    \E i \in DOMAIN disclosures : \E cause \in FetchFailures :
      failed_downloads[k] = FailedInfo(disclosures[i], cause)

\* C9: in every run, once download_pdfs has ended, failed_files.json was
\* written in this run exactly if a fetch of this run failed, and it then
\* holds this run's failed records and nothing else.
C9_Manifest ==
  DownloadEnded =>
    /\ wroteFailed <=> (failed_downloads # <<>>)
    /\ wroteFailed => failedFile = <<failed_downloads>>
    /\ FailedAreCopies

\* C9 for the combined script alone.
C9_CombinedManifest == script = "Combined" => C9_Manifest

\* C10: every document address is built from the year of the archive whose
\* records are being retrieved.
C10_YearKey ==
  \A k \in DOMAIN attempts : attempts[k].year = jsonFile[1].year

\* C10 for the combined script alone: the year of every document address is
\* the year main passed to download_zip_file.
C10_CombinedYearKey ==
  script = "Combined" =>
    \A k \in DOMAIN attempts : attempts[k].year = main_year

====
